---- MODULE Spec2Model ----
(***************************************************************************)
(* logo-test: preview a Wikimedia wiki with a candidate logo.              *)
(*                                                                         *)
(* A model of one request to the /test route (build_test) of src/main.rs,  *)
(* with the validators, the URL rewrite, the Commons CSS substitution and  *)
(* the splice of the CSS into the fetched page.                            *)
(*                                                                         *)
(* A Rust string is a sequence of one-character strings, so that prefix,   *)
(* suffix, search and replacement are computed and not assumed.            *)
(***************************************************************************)
EXTENDS Integers, Sequences, FiniteSets, TLC

VARIABLES
    wiki,       \* the `wiki` query parameter
    logo,       \* the `logo` query parameter
    useskin,    \* the `useskin` query parameter
    toolforge,  \* what the meta_p registry does for this request
    pc,         \* the next step of build_test
    trace,      \* the steps build_test has run, each with its outcome
    requests,   \* the outbound HTTP requests sent so far
    dblog,      \* what validate_domain did with the registry
    page,       \* the parts of the page the wiki served
    text,       \* the page text as fetched
    fixed,      \* the page text after the URL rewrite
    info,       \* the ImageInfo Commons answered with
    css,        \* the result of commons_thumbs
    result      \* what build_test returned

vars == <<wiki, logo, useskin, toolforge, pc, trace, requests, dblog,
          page, text, fixed, info, css, result>>

-----------------------------------------------------------------------------
(* Strings *)

Min(S) == CHOOSE x \in S : \A y \in S : x <= y
Max(S) == CHOOSE x \in S : \A y \in S : x >= y

\* str::starts_with
StartsWith(s, p) == Len(s) >= Len(p) /\ SubSeq(s, 1, Len(p)) = p

\* str::ends_with
EndsWith(s, p) == Len(s) >= Len(p) /\ SubSeq(s, Len(s) - Len(p) + 1, Len(s)) = p

\* p occurs in s at index i
MatchAt(s, p, i) ==
    /\ i >= 1
    /\ i + Len(p) - 1 <= Len(s)
    /\ \A k \in 1..Len(p) : s[i + k - 1] = p[k]

\* the indices at which p occurs in s, overlapping ones included
Occurrences(s, p) == {i \in 1..Len(s) : MatchAt(s, p, i)}

\* str::replace: every non-overlapping occurrence of p, found left to right
\* in s as it was, becomes r; the replacement text is not searched again.
RECURSIVE ReplaceFrom(_, _, _, _)
ReplaceFrom(s, p, r, i) ==
    LET hits == {j \in i..(Len(s) - Len(p) + 1) : MatchAt(s, p, j)}
    IN  IF hits = {}
        THEN SubSeq(s, i, Len(s))
        ELSE LET j == Min(hits)
             IN  SubSeq(s, i, j - 1) \o r \o ReplaceFrom(s, p, r, j + Len(p))

Replace(s, p, r) == ReplaceFrom(s, p, r, 1)

RECURSIVE Flatten(_)
Flatten(ss) == IF ss = << >> THEN << >> ELSE Head(ss) \o Flatten(Tail(ss))

\* anyhow::Result
Ok == [ok |-> TRUE, err |-> "", text |-> << >>]
Err(msg) == [ok |-> FALSE, err |-> msg, text |-> << >>]
OkText(t) == [ok |-> TRUE, err |-> "", text |-> t]

-----------------------------------------------------------------------------
(* The CSS template *)

CSS ==
    <<"\n", "<", "s", "t", "y", "l", "e", " ", "t", "y", "p", "e", "=", "\"", "t", "e",
      "x", "t", "/", "c", "s", "s", "\"", ">", "\n", ".", "m", "w", "-", "w", "i", "k",
      "i", "-", "l", "o", "g", "o", " ", "{", "\n", " ", "b", "a", "c", "k", "g", "r",
      "o", "u", "n", "d", "-", "i", "m", "a", "g", "e", ":", "u", "r", "l", "(", "$",
      "l", "o", "g", "o", ")", "\n", "}", "\n", "\n", "@", "m", "e", "d", "i", "a", " ",
      "(", "-", "w", "e", "b", "k", "i", "t", "-", "m", "i", "n", "-", "d", "e", "v",
      "i", "c", "e", "-", "p", "i", "x", "e", "l", "-", "r", "a", "t", "i", "o", ":",
      "1", ".", "5", ")", ",", "(", "m", "i", "n", "-", "-", "m", "o", "z", "-", "d",
      "e", "v", "i", "c", "e", "-", "p", "i", "x", "e", "l", "-", "r", "a", "t", "i",
      "o", ":", "1", ".", "5", ")", ",", "(", "m", "i", "n", "-", "r", "e", "s", "o",
      "l", "u", "t", "i", "o", "n", ":", "1", ".", "5", "d", "p", "p", "x", ")", ",",
      "(", "m", "i", "n", "-", "r", "e", "s", "o", "l", "u", "t", "i", "o", "n", ":",
      "1", "4", "4", "d", "p", "i", ")", " ", "{", "\n", " ", ".", "m", "w", "-", "w",
      "i", "k", "i", "-", "l", "o", "g", "o", " ", "{", "\n", " ", " ", "b", "a", "c",
      "k", "g", "r", "o", "u", "n", "d", "-", "i", "m", "a", "g", "e", ":", "u", "r",
      "l", "(", "$", "l", "o", "g", "o", "_", "1", "_", "5", "x", ")", ";", "\n", " ",
      " ", "b", "a", "c", "k", "g", "r", "o", "u", "n", "d", "-", "s", "i", "z", "e",
      ":", "1", "3", "5", "p", "x", " ", "a", "u", "t", "o", "\n", " ", "}", "\n", "}",
      "\n", "@", "m", "e", "d", "i", "a", " ", "(", "-", "w", "e", "b", "k", "i", "t",
      "-", "m", "i", "n", "-", "d", "e", "v", "i", "c", "e", "-", "p", "i", "x", "e",
      "l", "-", "r", "a", "t", "i", "o", ":", "2", ")", ",", "(", "m", "i", "n", "-",
      "-", "m", "o", "z", "-", "d", "e", "v", "i", "c", "e", "-", "p", "i", "x", "e",
      "l", "-", "r", "a", "t", "i", "o", ":", "2", ")", ",", "(", "m", "i", "n", "-",
      "r", "e", "s", "o", "l", "u", "t", "i", "o", "n", ":", "2", "d", "p", "p", "x",
      ")", ",", "(", "m", "i", "n", "-", "r", "e", "s", "o", "l", "u", "t", "i", "o",
      "n", ":", "1", "9", "2", "d", "p", "i", ")", " ", "{", "\n", " ", ".", "m", "w",
      "-", "w", "i", "k", "i", "-", "l", "o", "g", "o", " ", "{", "\n", " ", " ", "b",
      "a", "c", "k", "g", "r", "o", "u", "n", "d", "-", "i", "m", "a", "g", "e", ":",
      "u", "r", "l", "(", "$", "l", "o", "g", "o", "_", "2", "x", ")", ";", "\n", " ",
      " ", "b", "a", "c", "k", "g", "r", "o", "u", "n", "d", "-", "s", "i", "z", "e",
      ":", "1", "3", "5", "p", "x", " ", "a", "u", "t", "o", ";", "\n", " ", "}", "\n",
      "}", "\n", "<", "/", "s", "t", "y", "l", "e", ">", "\n", "<", "/", "h", "e", "a",
      "d", ">", "\n">>

-----------------------------------------------------------------------------
(* validate_skin *)

SKINS == << <<"v", "e", "c", "t", "o", "r">>, <<"t", "i", "m", "e", "l", "e", "s", "s">>, <<"m", "o", "n", "o", "b", "o", "o", "k">> >>

validate_skin_without_monobook(skin) ==
    IF \E i \in 1..2 : SKINS[i] = skin
    THEN Ok
    ELSE Err("Invalid skin specified")

validate_skin(skin) ==
    IF \E i \in 1..Len(SKINS) : SKINS[i] = skin
    THEN Ok
    ELSE Err("Invalid skin specified")

-----------------------------------------------------------------------------
(* validate_logo *)

DOT_SVG == <<".", "s", "v", "g">>
FILE_PREFIX == <<"F", "i", "l", "e", ":">>

validate_logo_prefix_only(l) ==
    IF ~StartsWith(l, FILE_PREFIX)
    THEN Err("Logo must begin with File:")
    ELSE Ok

validate_logo(l) ==
    IF ~EndsWith(l, DOT_SVG)
    THEN Err("Logo must be a SVG")
    ELSE IF ~StartsWith(l, FILE_PREFIX)
         THEN Err("Logo must begin with File:")
         ELSE Ok

-----------------------------------------------------------------------------
(* validate_domain *)

HTTPS == <<"h", "t", "t", "p", "s", ":", "/", "/">>
SCHEME == <<"h", "t", "t", "p", "s", ":">>
UPLOAD == <<"u", "p", "l", "o", "a", "d", ".", "w", "i", "k", "i", "m", "e", "d", "i", "a",
      ".", "o", "r", "g">>
PEOPLE == <<"p", "e", "o", "p", "l", "e", ".", "w", "i", "k", "i", "m", "e", "d", "i", "a",
      ".", "o", "r", "g">>

UPPER == <<"A", "B", "C", "D", "E", "F", "G", "H", "I", "J", "K", "L", "M", "N", "O", "P",
      "Q", "R", "S", "T", "U", "V", "W", "X", "Y", "Z">>
LOWER == <<"a", "b", "c", "d", "e", "f", "g", "h", "i", "j", "k", "l", "m", "n", "o", "p",
      "q", "r", "s", "t", "u", "v", "w", "x", "y", "z">>
DIGITS == {"0", "1", "2", "3", "4", "5", "6", "7", "8", "9"}

ToLower(c) ==
    IF \E i \in 1..Len(UPPER) : UPPER[i] = c
    THEN LOWER[CHOOSE i \in 1..Len(UPPER) : UPPER[i] = c]
    ELSE c

\* the characters that end the authority of a special-scheme URL
AuthorityStop == {"/", "\\", "?", "#"}

\* the characters a host may not hold
ForbiddenHost == {" ", "#", "/", ":", "<", ">", "?", "@", "[", "\\", "]", "^", "|", "%"}

RECURSIVE SkipSlashes(_, _)
SkipSlashes(s, i) ==
    IF i <= Len(s) /\ s[i] \in {"/", "\\"} THEN SkipSlashes(s, i + 1) ELSE i

\* url::Url::parse(s) followed by host_str(), for s that begins with https:
\* the slashes after the scheme are skipped, the authority runs to the first
\* of / \ ? #, the userinfo ends at its last @, the port follows the first
\* colon after it, and the host is lower-cased.  An https URL always has a
\* host, so host_str() is never None: an empty host is a parse error.
UrlHost(s) ==
    LET a     == SkipSlashes(s, Len(SCHEME) + 1)
        stops == {j \in a..Len(s) : s[j] \in AuthorityStop}
        e     == IF stops = {} THEN Len(s) ELSE Min(stops) - 1
        auth  == SubSeq(s, a, e)
        ats   == {j \in 1..Len(auth) : auth[j] = "@"}
        hp    == IF ats = {} THEN auth ELSE SubSeq(auth, Max(ats) + 1, Len(auth))
        cols  == {j \in 1..Len(hp) : hp[j] = ":"}
        host  == IF cols = {} THEN hp ELSE SubSeq(hp, 1, Min(cols) - 1)
        port  == IF cols = {} THEN << >> ELSE SubSeq(hp, Min(cols) + 1, Len(hp))
    IN  IF host = << >>
        THEN [ok |-> FALSE, err |-> "empty host", host |-> << >>]
        ELSE IF \E j \in 1..Len(port) : port[j] \notin DIGITS
        THEN [ok |-> FALSE, err |-> "invalid port number", host |-> << >>]
        ELSE IF \E j \in 1..Len(host) : host[j] \in ForbiddenHost
        THEN [ok |-> FALSE, err |-> "invalid domain character", host |-> << >>]
        ELSE [ok |-> TRUE, err |-> "", host |-> [j \in 1..Len(host) |-> ToLower(host[j])]]

\* lines 145-153: the domain validate_domain goes on with
ResolveDomain(w) ==
    IF StartsWith(w, HTTPS)
    THEN UrlHost(w)
    ELSE [ok |-> TRUE, err |-> "", host |-> w]

\* the rows of the `url` column of meta_p.wiki
WikiTable == { <<"h", "t", "t", "p", "s", ":", "/", "/", "e", "n", ".", "w", "i", "k", "i", "p",
      "e", "d", "i", "a", ".", "o", "r", "g">>, <<"h", "t", "t", "p", "s", ":", "/", "/", "c", "o", "m", "m", "o", "n", "s", ".",
      "w", "i", "k", "i", "m", "e", "d", "i", "a", ".", "o", "r", "g">> }

\* what toolforge::connection_info!, Pool::new, get_conn and exec_first do
Toolforge == {"NotToolforge", "ConnectionInfoError", "ConnectError", "QueryError", "Reachable"}

DomainResult(res, log) == [res |-> res, log |-> log]

validate_domain_registry_first(w, tf) ==
    LET d == ResolveDomain(w)
        full_domain == HTTPS \o d.host
    IN  IF ~d.ok THEN DomainResult(Err(d.err), << >>)
        ELSE IF tf = "NotToolforge"
        THEN DomainResult(Ok, << <<"connection_info">> >>)
        ELSE IF tf = "ConnectionInfoError"
        THEN DomainResult(Err("connection info error"), << <<"connection_info">> >>)
        ELSE IF tf = "ConnectError"
        THEN DomainResult(Err("connect error"), << <<"connection_info">>, <<"connect">> >>)
        ELSE IF tf = "QueryError"
        THEN DomainResult(Err("query error"),
                          << <<"connection_info">>, <<"connect">>, <<"query", full_domain>> >>)
        ELSE IF full_domain \in WikiTable \/ d.host = UPLOAD \/ d.host = PEOPLE
        THEN DomainResult(Ok, << <<"connection_info">>, <<"connect">>, <<"query", full_domain>> >>)
        ELSE DomainResult(Err("Invalid domain"),
                          << <<"connection_info">>, <<"connect">>, <<"query", full_domain>> >>)

validate_domain_strict(w, tf) ==
    LET d == ResolveDomain(w)
        full_domain == HTTPS \o d.host
    IN  IF ~d.ok THEN DomainResult(Err(d.err), << >>)
        ELSE IF d.host = UPLOAD \/ d.host = PEOPLE
        THEN DomainResult(Ok, << >>)
        ELSE IF tf = "NotToolforge"
        THEN DomainResult(Err("not on Toolforge"), << <<"connection_info">> >>)
        ELSE IF tf = "ConnectionInfoError"
        THEN DomainResult(Err("connection info error"), << <<"connection_info">> >>)
        ELSE IF tf = "ConnectError"
        THEN DomainResult(Err("connect error"), << <<"connection_info">>, <<"connect">> >>)
        ELSE IF tf = "QueryError"
        THEN DomainResult(Err("query error"),
                          << <<"connection_info">>, <<"connect">>, <<"query", full_domain>> >>)
        ELSE IF full_domain \in WikiTable
        THEN DomainResult(Ok, << <<"connection_info">>, <<"connect">>, <<"query", full_domain>> >>)
        ELSE DomainResult(Err("Invalid domain"),
                          << <<"connection_info">>, <<"connect">>, <<"query", full_domain>> >>)

\* The result of validate_domain(w) and what it did with the registry on
\* the way: reading the connection info, connecting, querying.
validate_domain(w, tf) ==
    LET d == ResolveDomain(w)
        full_domain == HTTPS \o d.host
    IN  IF ~d.ok THEN DomainResult(Err(d.err), << >>)
        ELSE IF d.host = UPLOAD \/ d.host = PEOPLE
        THEN DomainResult(Ok, << >>)
        ELSE IF tf = "NotToolforge"
        THEN DomainResult(Ok, << <<"connection_info">> >>)
        ELSE IF tf = "ConnectionInfoError"
        THEN DomainResult(Err("connection info error"), << <<"connection_info">> >>)
        ELSE IF tf = "ConnectError"
        THEN DomainResult(Err("connect error"), << <<"connection_info">>, <<"connect">> >>)
        ELSE IF tf = "QueryError"
        THEN DomainResult(Err("query error"),
                          << <<"connection_info">>, <<"connect">>, <<"query", full_domain>> >>)
        ELSE IF full_domain \in WikiTable
        THEN DomainResult(Ok, << <<"connection_info">>, <<"connect">>, <<"query", full_domain>> >>)
        ELSE DomainResult(Err("Invalid domain"),
                          << <<"connection_info">>, <<"connect">>, <<"query", full_domain>> >>)

-----------------------------------------------------------------------------
(* The URL rewrite of build_test *)

ATTRS == << <<"s", "r", "c">>, <<"h", "r", "e", "f">> >>
EQ_QUOTE_SLASH == <<"=", "\"", "/">>

\* the character class [A-z]: the code points 0x41 to 0x7A; "U+0060" stands
\* for the grave accent, which a string of this language cannot hold
Range(cs) == {cs[i] : i \in 1..Len(cs)}
ASCII_A_TO_z == Range(UPPER) \cup {"[", "\\", "]", "^", "_", "U+0060"} \cup Range(LOWER)
ASCII_LETTERS == Range(UPPER) \cup Range(LOWER)

LetterClassLettersOnly == ASCII_LETTERS

LetterClass == ASCII_A_TO_z

\* the alternative of (src|href) with which the regex matches at i, or 0
AttrAt(t, i) ==
    LET ks == {k \in 1..Len(ATTRS) :
                  /\ MatchAt(t, ATTRS[k] \o EQ_QUOTE_SLASH, i)
                  /\ i + Len(ATTRS[k]) + Len(EQ_QUOTE_SLASH) <= Len(t)
                  /\ t[i + Len(ATTRS[k]) + Len(EQ_QUOTE_SLASH)] \in LetterClass}
    IN  IF ks = {} THEN 0 ELSE Min(ks)

\* the name characters of a $name reference in a replacement string
NameChars == ASCII_LETTERS \cup DIGITS \cup {"_"}

RECURSIVE NameEnd(_, _)
NameEnd(r, i) == IF i <= Len(r) /\ r[i] \in NameChars THEN NameEnd(r, i + 1) ELSE i

\* the capture groups of one match: attr is group 1, (src|href) group 2 and
\* letter group 3; a reference to no group expands to nothing
Group(name, whole, attr, letter) ==
    IF name = <<"a", "t", "t", "r">> \/ name = <<"1">> \/ name = <<"2">> THEN attr
    ELSE IF name = <<"l", "e", "t", "t", "e", "r">> \/ name = <<"3">> THEN letter
    ELSE IF name = <<"0">> THEN whole
    ELSE << >>

\* regex::Captures::expand without the ${name} form: $name is the longest
\* run of name characters after the dollar, $$ is a dollar
RECURSIVE Expand(_, _, _, _, _)
Expand(r, i, whole, attr, letter) ==
    IF i > Len(r) THEN << >>
    ELSE IF r[i] # "$" THEN <<r[i]>> \o Expand(r, i + 1, whole, attr, letter)
    ELSE IF i < Len(r) /\ r[i + 1] = "$" THEN <<"$">> \o Expand(r, i + 2, whole, attr, letter)
    ELSE LET e == NameEnd(r, i + 1)
         IN  IF e = i + 1
             THEN <<"$">> \o Expand(r, i + 1, whole, attr, letter)
             ELSE Group(SubSeq(r, i + 1, e - 1), whole, attr, letter)
                      \o Expand(r, e, whole, attr, letter)

\* format!(r#"$attr="//{}/$letter"#, wiki)
Rep(w) == <<"$", "a", "t", "t", "r", "=", "\"", "/", "/">> \o w \o <<"/", "$", "l", "e", "t", "t", "e", "r">>

\* Regex::replace_all: the matches are found left to right and do not overlap
RECURSIVE RewriteFrom(_, _, _)
RewriteFrom(t, w, i) ==
    LET hits == {j \in i..Len(t) : AttrAt(t, j) # 0}
    IN  IF hits = {}
        THEN SubSeq(t, i, Len(t))
        ELSE LET j      == Min(hits)
                 attr   == ATTRS[AttrAt(t, j)]
                 n      == Len(attr) + Len(EQ_QUOTE_SLASH)
                 letter == <<t[j + n]>>
                 whole  == SubSeq(t, j, j + n)
             IN  SubSeq(t, i, j - 1)
                     \o Expand(Rep(w), 1, whole, attr, letter)
                     \o RewriteFrom(t, w, j + n + 1)

RewriteUrls(t, w) == RewriteFrom(t, w, 1)

-----------------------------------------------------------------------------
(* commons_thumbs *)

LOGO == <<"$", "l", "o", "g", "o">>
LOGO_1_5X == <<"$", "l", "o", "g", "o", "_", "1", "_", "5", "x">>
LOGO_2X == <<"$", "l", "o", "g", "o", "_", "2", "x">>

\* .replace("$logo", ..) run first, before the longer placeholders
commons_thumbs_logo_first(i) ==
    Replace(
        Replace(
            Replace(CSS, LOGO, i.thumburl),
            LOGO_1_5X, Replace(i.responsive_urls.one_half, <<"2", "0", "3">>, <<"2", "0", "2">>)),
        LOGO_2X, i.responsive_urls.two)

\* lines 197-204: the CSS for the ImageInfo i
commons_thumbs(i) ==
    Replace(
        Replace(
            Replace(CSS, LOGO_1_5X, Replace(i.responsive_urls.one_half, <<"2", "0", "3">>, <<"2", "0", "2">>)),
            LOGO_2X, i.responsive_urls.two),
        LOGO, i.thumburl)

\* format! of the Commons API request
CommonsUrl(l) ==
    <<"h", "t", "t", "p", "s", ":", "/", "/", "c", "o", "m", "m", "o", "n", "s", ".",
      "w", "i", "k", "i", "m", "e", "d", "i", "a", ".", "o", "r", "g", "/", "w", "/",
      "a", "p", "i", ".", "p", "h", "p", "?", "a", "c", "t", "i", "o", "n", "=", "q",
      "u", "e", "r", "y", "&", "f", "o", "r", "m", "a", "t", "=", "j", "s", "o", "n",
      "&", "p", "r", "o", "p", "=", "i", "m", "a", "g", "e", "i", "n", "f", "o", "&",
      "t", "i", "t", "l", "e", "s", "=">>
        \o l \o <<"&", "f", "o", "r", "m", "a", "t", "v", "e", "r", "s", "i", "o", "n", "=", "2",
      "&", "i", "i", "p", "r", "o", "p", "=", "u", "r", "l", "&", "i", "i", "u", "r",
      "l", "w", "i", "d", "t", "h", "=", "1", "3", "5">>

\* format!("https://{}/?useskin={}", wiki, useskin)
PageUrl(w, skin) == HTTPS \o w \o <<"/", "?", "u", "s", "e", "s", "k", "i", "n", "=">> \o skin

HEAD_TAG == <<"<", "/", "h", "e", "a", "d", ">">>

SpliceKeepingTag(t, c) == Replace(t, HEAD_TAG, c \o HEAD_TAG)

\* line 225: fixed.replace("</head>", &css)
Splice(t, c) == Replace(t, HEAD_TAG, c)

-----------------------------------------------------------------------------
(* The requests to /test, and what the wiki and Commons answer *)

\* the longest page, in parts
MaxPageParts == 2

Skins == { <<"v", "e", "c", "t", "o", "r">>, <<"t", "i", "m", "e", "l", "e", "s", "s">>, <<"m", "o", "n", "o", "b", "o", "o", "k">>, <<"w", "h", "a", "t", "e", "v", "e", "r">>, <<"V", "e", "c", "t", "o", "r">>, << >> }

Logos == { <<"F", "i", "l", "e", ":", "W", "i", "k", "i", ".", "s", "v", "g">>, <<"W", "i", "k", "i", ".", "s", "v", "g">>, <<"F", "i", "l", "e", ":", "W", "i", "k", "i", ".", "p", "n", "g">>, <<"F", "i", "l", "e", ":", "W", "i", "k", "i", ".", "S", "V", "G">>,
           <<"B", "a", "d", "_", "l", "o", "g", "o">>, <<".", "s", "v", "g">>, << >> }

Wikis == { <<"e", "n", ".", "w", "i", "k", "i", "p", "e", "d", "i", "a", ".", "o", "r", "g">>, <<"u", "p", "l", "o", "a", "d", ".", "w", "i", "k", "i", "m", "e", "d", "i", "a",
      ".", "o", "r", "g">>, <<"p", "e", "o", "p", "l", "e", ".", "w", "i", "k", "i", "m", "e", "d", "i", "a",
      ".", "o", "r", "g">>,
           <<"p", "e", "o", "p", "l", "e", ".", "w", "i", "k", "m", "e", "d", "i", "a", ".",
      "o", "r", "g">>, <<"h", "t", "t", "p", "s", ":", "/", "/", "u", "p", "l", "o", "a", "d", ".", "w",
      "i", "k", "i", "m", "e", "d", "i", "a", ".", "o", "r", "g">>,
           <<"h", "t", "t", "p", "s", ":", "/", "/", "p", "e", "o", "p", "l", "e", ".", "w",
      "i", "k", "i", "m", "e", "d", "i", "a", ".", "o", "r", "g", "/">>, <<"h", "t", "t", "p", "s", ":", "/", "/", "E", "N", ".", "w", "i", "k", "i", "p",
      "e", "d", "i", "a", ".", "o", "r", "g">>,
           <<"h", "t", "t", "p", "s", ":", "/", "/">>, <<"/", "f", "o", "o", "/", "b", "a", "r">> }

\* what a served page is made of
PART_LETTERS == <<"<", "a", " ", "h", "r", "e", "f", "=", "\"", "/", "a", "\"", ">", "<", "i", "m",
      "g", " ", "s", "r", "c", "=", "\"", "/", "w", "i", "k", "i", "/", "w", ".", "p",
      "n", "g", "\"", ">">>
PART_OTHERS == <<"<", "l", "i", "n", "k", " ", "h", "r", "e", "f", "=", "\"", "/", "_", "x", "\"",
      ">", "<", "a", " ", "h", "r", "e", "f", "=", "\"", "/", "1", "\"", ">", "<", "a",
      " ", "h", "r", "e", "f", "=", "\"", "/", "/", "x", ".", "o", "r", "g", "/", "a",
      "\"", ">", "<", "a", " ", "h", "r", "e", "f", "=", "\"", "h", "t", "t", "p", "s",
      ":", "/", "/", "x", ".", "o", "r", "g", "/", "a", "\"", ">">>

PageParts == {HEAD_TAG, PART_LETTERS, PART_OTHERS}

Pages == UNION {[1..n -> PageParts] : n \in 0..MaxPageParts}

\* struct ImageInfo, as Commons fills it for a file and a 1.5x width
THUMB == <<"h", "t", "t", "p", "s", ":", "/", "/", "u", "p", "l", "o", "a", "d", ".", "w",
      "i", "k", "i", "m", "e", "d", "i", "a", ".", "o", "r", "g", "/", "t", "/">>
ImageInfoOf(file, width) ==
    [thumburl |-> THUMB \o <<"1", "3", "5", "p", "x", "-">> \o file \o <<".", "s", "v", "g", ".", "p", "n", "g">>,
     responsive_urls |->
        [one_half |-> THUMB \o width \o <<"p", "x", "-">> \o file \o <<".", "s", "v", "g", ".", "p", "n", "g">>,
         two      |-> THUMB \o <<"2", "7", "0", "p", "x", "-">> \o file \o <<".", "s", "v", "g", ".", "p", "n", "g">>]]

ImageInfos == { ImageInfoOf(<<"W", "i", "k", "i">>, <<"2", "0", "3">>), ImageInfoOf(<<"W", "i", "k", "i">>, <<"2", "0", "2">>),
                ImageInfoOf(<<"$", "l", "o", "g", "o">>, <<"2", "0", "3">>), ImageInfoOf(<<"X", "2", "0", "3">>, <<"2", "0", "3">>) }

\* commons_thumbs is a function of the ImageInfo alone
CssOf == [i \in ImageInfos |-> commons_thumbs(i)]

NoInfo == [thumburl |-> << >>, responsive_urls |-> [one_half |-> << >>, two |-> << >>]]
NoResult == Err("(pending)")

Init ==
    /\ wiki \in Wikis
    /\ logo \in Logos
    /\ useskin \in Skins
    /\ toolforge \in Toolforge
    /\ pc = "validate_skin"
    /\ trace = << >>
    /\ requests = << >>
    /\ dblog = << >>
    /\ page = << >>
    /\ text = << >>
    /\ fixed = << >>
    /\ info = NoInfo
    /\ css = << >>
    /\ result = NoResult

-----------------------------------------------------------------------------
(* build_test, step by step *)

Ran(step, res) == [step |-> step, res |-> res]

\* the ? operator: go on when res is Ok, return the error otherwise
Try(step, res, next) ==
    /\ trace' = Append(trace, Ran(step, res))
    /\ IF res.ok
       THEN pc' = next /\ result' = result
       ELSE pc' = "done" /\ result' = res

\* a step whose error is dropped: the pipeline goes on
TryIgnoringError(step, res, next) ==
    /\ trace' = Append(trace, Ran(step, res))
    /\ pc' = next
    /\ result' = result

\* line 209
ValidateSkin ==
    /\ pc = "validate_skin"
    /\ Try("validate_skin", validate_skin(useskin), "validate_domain")
    /\ UNCHANGED <<wiki, logo, useskin, toolforge, requests, dblog, page, text, fixed, info, css>>

\* line 210
ValidateDomain ==
    /\ pc = "validate_domain"
    /\ LET d == validate_domain(wiki, toolforge)
       IN  /\ dblog' = dblog \o d.log
           /\ Try("validate_domain", d.res, "validate_logo")
    /\ UNCHANGED <<wiki, logo, useskin, toolforge, requests, page, text, fixed, info, css>>

ValidateLogoIgnoringError ==
    /\ pc = "validate_logo"
    /\ TryIgnoringError("validate_logo", validate_logo(logo), "fetch_page")
    /\ UNCHANGED <<wiki, logo, useskin, toolforge, requests, dblog, page, text, fixed, info, css>>

\* line 211
ValidateLogo ==
    /\ pc = "validate_logo"
    /\ Try("validate_logo", validate_logo(logo), "fetch_page")
    /\ UNCHANGED <<wiki, logo, useskin, toolforge, requests, dblog, page, text, fixed, info, css>>

\* lines 212-216: the client is built, the request is sent, the body is read
FetchPage ==
    /\ pc = "fetch_page"
    /\ \/ /\ Try("fetch_page", Err("client error"), "rewrite")
          /\ UNCHANGED <<requests, page, text>>
       \/ /\ requests' = Append(requests, PageUrl(wiki, useskin))
          /\ Try("fetch_page", Err("fetch error"), "rewrite")
          /\ UNCHANGED <<page, text>>
       \/ /\ requests' = Append(requests, PageUrl(wiki, useskin))
          /\ \E p \in Pages :
                /\ page' = p
                /\ text' = Flatten(p)
          /\ Try("fetch_page", Ok, "rewrite")
    /\ UNCHANGED <<wiki, logo, useskin, toolforge, dblog, fixed, info, css>>

\* lines 218-221
Rewrite ==
    /\ pc = "rewrite"
    /\ fixed' = RewriteUrls(text, wiki)
    /\ Try("rewrite", Ok, "commons_thumbs")
    /\ UNCHANGED <<wiki, logo, useskin, toolforge, requests, dblog, page, text, info, css>>

\* lines 224 and 187-206: the request is sent, the JSON is parsed into an
\* ImageInfo, the CSS is filled in
CommonsThumbs ==
    /\ pc = "commons_thumbs"
    /\ \/ /\ Try("commons_thumbs", Err("client error"), "splice")
          /\ UNCHANGED <<requests, info, css>>
       \/ /\ requests' = Append(requests, CommonsUrl(logo))
          /\ Try("commons_thumbs", Err("fetch error"), "splice")
          /\ UNCHANGED <<info, css>>
       \/ /\ requests' = Append(requests, CommonsUrl(logo))
          /\ Try("commons_thumbs", Err("missing field"), "splice")
          /\ UNCHANGED <<info, css>>
       \/ /\ requests' = Append(requests, CommonsUrl(logo))
          /\ \E i \in ImageInfos :
                /\ info' = i
                /\ css' = CssOf[i]
          /\ Try("commons_thumbs", Ok, "splice")
    /\ UNCHANGED <<wiki, logo, useskin, toolforge, dblog, page, text, fixed>>

\* lines 225-226
Inject ==
    /\ pc = "splice"
    /\ trace' = Append(trace, Ran("splice", Ok))
    /\ result' = OkText(Splice(fixed, css))
    /\ pc' = "done"
    /\ UNCHANGED <<wiki, logo, useskin, toolforge, requests, dblog, page, text, fixed, info, css>>

Next ==
    \/ ValidateSkin
    \/ ValidateDomain
    \/ ValidateLogo
    \/ FetchPage
    \/ Rewrite
    \/ CommonsThumbs
    \/ Inject

Spec == Init /\ [][Next]_vars

-----------------------------------------------------------------------------
(* Properties *)

Has(step) == \E i \in 1..Len(trace) : trace[i].step = step
ResOf(step) == trace[CHOOSE i \in 1..Len(trace) : trace[i].step = step].res
Succeeded(step) == Has(step) /\ ResOf(step).ok

Steps == <<"validate_skin", "validate_domain", "validate_logo", "fetch_page",
           "rewrite", "commons_thumbs", "splice">>

\* C1: build_test runs validate_skin, validate_domain, validate_logo, the
\* page fetch, the rewrite, commons_thumbs and the splice in this order; the
\* first step that fails ends the pipeline and its error is the result; no
\* HTTP request is sent unless the three validators accept the input, and a
\* page is returned only when every step succeeded.
C1_PipelineOrder ==
    /\ Len(trace) <= Len(Steps)
    /\ \A i \in 1..Len(trace) : trace[i].step = Steps[i]
    /\ \A i \in 1..(Len(trace) - 1) : trace[i].res.ok
    /\ (trace # << >> /\ ~trace[Len(trace)].res.ok) =>
            pc = "done" /\ result = trace[Len(trace)].res
    /\ requests # << >> =>
            /\ validate_skin(useskin).ok
            /\ validate_domain(wiki, toolforge).res.ok
            /\ validate_logo(logo).ok
    /\ result.ok =>
            /\ pc = "done"
            /\ Len(trace) = Len(Steps)
            /\ \A i \in 1..Len(trace) : trace[i].res.ok
    /\ pc = "done" => (result.ok \/ result = trace[Len(trace)].res)

C1_Witness ==
    /\ pc = "done"
    /\ result.ok
    /\ requests = <<PageUrl(wiki, useskin), CommonsUrl(logo)>>

\* the text t with c in the place of the first </head>, t itself without one
ReplaceFirstTag(t, c) ==
    IF Occurrences(t, HEAD_TAG) = {}
    THEN t
    ELSE LET k == Min(Occurrences(t, HEAD_TAG))
         IN  SubSeq(t, 1, k - 1) \o c \o SubSeq(t, k + Len(HEAD_TAG), Len(t))

\* C2: the CSS is spliced at the first </head> of the rewritten text only
\* (the fragment ends with the tag it takes the place of): every later
\* </head> is left as it was, and a page without </head> comes back as
\* rewritten, with no error.
C2_SpliceAtFirstTagOnly ==
    Has("splice") => result.ok /\ result.text = ReplaceFirstTag(fixed, css)

OneTag(t) == Cardinality(Occurrences(t, HEAD_TAG)) = 1
TagAt(t) == CHOOSE k \in Occurrences(t, HEAD_TAG) : TRUE

\* C3, as specified: with exactly one </head> in the page, the
\* returned page is as long as the rewritten text plus the CSS, and the CSS
\* stands immediately before that tag.
C3_LengthIsSum ==
    (Has("splice") /\ OneTag(text)) =>
        /\ Len(result.text) = Len(fixed) + Len(css)
        /\ MatchAt(result.text, css \o HEAD_TAG, TagAt(fixed))

\* C3, amended: with exactly one </head> in the page, the CSS, which ends
\* with </head> and a line feed, takes the place of the tag: the returned
\* page is the rewritten text before the tag, the CSS, and the rewritten
\* text after the tag, so its length is that of the rewritten text plus
\* that of the CSS minus the 7 characters of the tag.
C3_TagReplaced ==
    (Has("splice") /\ OneTag(text)) =>
        /\ OneTag(fixed)
        /\ EndsWith(css, HEAD_TAG \o <<"\n">>)
        /\ Len(result.text) = Len(fixed) + Len(css) - Len(HEAD_TAG)
        /\ result.text = SubSeq(fixed, 1, TagAt(fixed) - 1) \o css
                            \o SubSeq(fixed, TagAt(fixed) + Len(HEAD_TAG), Len(fixed))

C3_Witness ==
    /\ Has("splice")
    /\ OneTag(text)
    /\ Len(page) = 2
    /\ page[2] = HEAD_TAG
    /\ Len(result.text) > Len(css)

\* what the rewrite makes of each part of a page, were only paths of a
\* single ASCII letter rewritten
SingleLetterRewrite(part, w) ==
    IF part = PART_LETTERS
    THEN <<"<", "a", " ", "h", "r", "e", "f", "=", "\"", "/", "/">> \o w \o <<"/", "a", "\"", ">", "<", "i", "m", "g", " ", "s", "r", "c", "=", "\"", "/", "w",
      "i", "k", "i", "/", "w", ".", "p", "n", "g", "\"", ">">>
    ELSE part

\* what the rewrite makes of each part of a page
FirstCharRewrite(part, w) ==
    IF part = PART_LETTERS
    THEN <<"<", "a", " ", "h", "r", "e", "f", "=", "\"", "/", "/">> \o w \o <<"/", "a", "\"", ">", "<", "i", "m", "g", " ", "s", "r", "c", "=", "\"", "/", "/">> \o w \o <<"/", "w", "i", "k", "i", "/", "w", ".", "p", "n", "g", "\"", ">">>
    ELSE IF part = PART_OTHERS
    THEN <<"<", "l", "i", "n", "k", " ", "h", "r", "e", "f", "=", "\"", "/", "/">> \o w \o <<"/", "_", "x", "\"", ">", "<", "a", " ", "h", "r", "e", "f", "=", "\"", "/", "1",
      "\"", ">", "<", "a", " ", "h", "r", "e", "f", "=", "\"", "/", "/", "x", ".", "o",
      "r", "g", "/", "a", "\"", ">", "<", "a", " ", "h", "r", "e", "f", "=", "\"", "h",
      "t", "t", "p", "s", ":", "/", "/", "x", ".", "o", "r", "g", "/", "a", "\"", ">">>
    ELSE part

\* C4, as specified: an attribute is rewritten only when its path
\* is one ASCII letter; longer paths, paths that begin with another
\* character, absolute and protocol-relative URLs stay as they are.
C4_SingleLetterOnly ==
    Has("rewrite") =>
        fixed = Flatten([i \in 1..Len(page) |-> SingleLetterRewrite(page[i], wiki)])

\* C4, amended: src="/X and href="/X are rewritten to ="//{wiki}/X whenever
\* the first character X of the path is in the range A to z of ASCII (the
\* letters and [ \ ] ^ _ and the grave accent), whatever follows X; a path
\* that begins with another character, an absolute URL and a
\* protocol-relative URL stay as they are.
C4_FirstCharInRange ==
    Has("rewrite") =>
        fixed = Flatten([i \in 1..Len(page) |-> FirstCharRewrite(page[i], wiki)])

C4_Witness ==
    /\ Has("rewrite")
    /\ page = <<PART_LETTERS, PART_OTHERS>>
    /\ fixed # text

\* the template around its three placeholders, cut at its dollar signs
Dollars == {i \in 1..Len(CSS) : CSS[i] = "$"}
Dollar1 == Min(Dollars)
Dollar3 == Max(Dollars)
Dollar2 == CHOOSE i \in Dollars : i # Dollar1 /\ i # Dollar3
Seg0 == SubSeq(CSS, 1, Dollar1 - 1)
Seg1 == SubSeq(CSS, Dollar1 + Len(LOGO), Dollar2 - 1)
Seg2 == SubSeq(CSS, Dollar2 + Len(LOGO_1_5X), Dollar3 - 1)
Seg3 == SubSeq(CSS, Dollar3 + Len(LOGO_2X), Len(CSS))

Filled(a, b, c) == Seg0 \o a \o Seg1 \o b \o Seg2 \o c \o Seg3

\* the 1.5x URL as it is substituted
OneHalfUrl(i) == Replace(i.responsive_urls.one_half, <<"2", "0", "3">>, <<"2", "0", "2">>)

\* C5, as specified: the CSS is the template with $logo replaced
\* by the thumburl, $logo_1_5x by the 1.5x URL and $logo_2x by the 2x URL,
\* and no placeholder is left.
C5_PureSubstitution ==
    (pc = "splice" /\ Succeeded("commons_thumbs")) =>
        /\ css = Filled(info.thumburl, info.responsive_urls.one_half, info.responsive_urls.two)
        /\ Occurrences(css, LOGO) = {}

\* C5, amended: $logo_1_5x is replaced by the 1.5x URL with every 203 in it
\* turned into 202, then $logo_2x by the 2x URL, then $logo by the thumburl;
\* each step replaces every occurrence in the text so far, so a placeholder
\* inside an URL substituted earlier is replaced as well.  When no URL holds
\* $logo, the CSS is the template with its three placeholders replaced once
\* each and no placeholder is left.
C5_SubstitutionInOrder ==
    (pc = "splice" /\ Succeeded("commons_thumbs")) =>
        LET a == info.thumburl
            b == OneHalfUrl(info)
            c == info.responsive_urls.two
        IN  /\ Cardinality(Dollars) = 3
            /\ css = Filled(a,
                            Replace(Replace(b, LOGO_2X, c), LOGO, a),
                            Replace(c, LOGO, a))
            /\ (Occurrences(a \o b \o c, LOGO) = {}) =>
                    /\ css = Filled(a, b, c)
                    /\ Occurrences(css, LOGO) = {}

C5_Witness ==
    /\ pc = "splice"
    /\ Succeeded("commons_thumbs")
    /\ Occurrences(info.responsive_urls.one_half, <<"2", "0", "3">>) # {}
    /\ Occurrences(info.thumburl, LOGO) = {}
    /\ Occurrences(css, <<"2", "0", "2", "p", "x", "-">>) # {}

SafeWikis == { <<"u", "p", "l", "o", "a", "d", ".", "w", "i", "k", "i", "m", "e", "d", "i", "a",
      ".", "o", "r", "g">>, <<"p", "e", "o", "p", "l", "e", ".", "w", "i", "k", "i", "m", "e", "d", "i", "a",
      ".", "o", "r", "g">>,
               <<"h", "t", "t", "p", "s", ":", "/", "/", "u", "p", "l", "o", "a", "d", ".", "w",
      "i", "k", "i", "m", "e", "d", "i", "a", ".", "o", "r", "g">>, <<"h", "t", "t", "p", "s", ":", "/", "/", "p", "e", "o", "p", "l", "e", ".", "w",
      "i", "k", "i", "m", "e", "d", "i", "a", ".", "o", "r", "g", "/">> }

\* C6: validate_domain accepts upload.wikimedia.org and
\* people.wikimedia.org, bare or as the host of an https URL, whatever the
\* registry does, and does not touch the registry for them.
C6_SafeHosts ==
    (Has("validate_domain") /\ wiki \in SafeWikis) =>
        /\ ResOf("validate_domain").ok
        /\ dblog = << >>

C6_Witness ==
    /\ Has("validate_domain")
    /\ wiki = <<"h", "t", "t", "p", "s", ":", "/", "/", "p", "e", "o", "p", "l", "e", ".", "w",
      "i", "k", "i", "m", "e", "d", "i", "a", ".", "o", "r", "g", "/">>
    /\ toolforge = "ConnectError"
    /\ ResOf("validate_domain").ok

\* the wikis of the model whose host is in the registry
RegisteredWikis == { <<"e", "n", ".", "w", "i", "k", "i", "p", "e", "d", "i", "a", ".", "o", "r", "g">>, <<"h", "t", "t", "p", "s", ":", "/", "/", "E", "N", ".", "w", "i", "k", "i", "p",
      "e", "d", "i", "a", ".", "o", "r", "g">> }

C8_LogoRule ==
    Has("validate_logo") =>
        LET r == ResOf("validate_logo")
            svg  == Len(logo) >= 4 /\ SubSeq(logo, Len(logo) - 3, Len(logo)) = <<".", "s", "v", "g">>
            file == Len(logo) >= 5 /\ SubSeq(logo, 1, 5) = <<"F", "i", "l", "e", ":">>
        IN  /\ r.ok <=> (svg /\ file)
            /\ r.ok <=> logo = <<"F", "i", "l", "e", ":", "W", "i", "k", "i", ".", "s", "v", "g">>
            /\ ~svg => r = Err("Logo must be a SVG")
            /\ (svg /\ ~file) => r = Err("Logo must begin with File:")

C8_Witness ==
    /\ Has("validate_logo")
    /\ logo = <<"B", "a", "d", "_", "l", "o", "g", "o">>
    /\ result = Err("Logo must be a SVG")

\* C9: validate_skin accepts vector, timeless and monobook and no other
\* string, the empty string and other cases of the letters included.
C9_SkinRule ==
    Has("validate_skin") =>
        (ResOf("validate_skin").ok <=> useskin \in { <<"v", "e", "c", "t", "o", "r">>, <<"t", "i", "m", "e", "l", "e", "s", "s">>, <<"m", "o", "n", "o", "b", "o", "o", "k">> })

C9_Witness ==
    /\ Has("validate_skin")
    /\ useskin = <<"m", "o", "n", "o", "b", "o", "o", "k">>
    /\ ResOf("validate_skin").ok

\* the host a browser resolves //{wiki}/X to on an https page
RewrittenHost(w) == UrlHost(SCHEME \o <<"/", "/">> \o w \o <<"/", "a">>)

\* C10: the page is fetched from the host validate_domain resolved and
\* accepted for `wiki`, and the rewritten src and href attributes point at
\* that host.
C10_FetchedHostIsValidatedHost ==
    (requests # << >>) =>
        /\ UrlHost(requests[1]).ok
        /\ UrlHost(requests[1]).host = ResolveDomain(wiki).host
        /\ RewrittenHost(wiki).host = ResolveDomain(wiki).host

====
